---- MODULE Spec2Model ----
(***************************************************************************)
(* A model of rust-codecov-cache: the directory cache (src/cache.rs) over  *)
(* a filesystem tree, and the cache-aside query                            *)
(* get_branch_detail_with_commit_id (src/lib.rs) over that cache and a     *)
(* remote Codecov endpoint.                                                *)
(*                                                                         *)
(* Paths are sequences of components relative to the cache root.  The      *)
(* filesystem is a set of directories and a function from file paths to    *)
(* their byte content.  Each library call (create_dir_all, File::create,   *)
(* write_all, read, remove_file, exists) is an operator on that tree; an   *)
(* I/O fault (permissions, disk full) is an input of the call.             *)
(***************************************************************************)
EXTENDS Naturals, Sequences, FiniteSets, TLC

VARIABLES dirs, files, ghost, lastMut, last, query, procs

vars == <<dirs, files, ghost, lastMut, last, query, procs>>

\* ---------------------------------------------------------------- bounds

\* Longest payload handed to save directly.
MaxLen == 1

\* Capacity of the BufWriter that save wraps the file in (std's default is
\* 8192 bytes), scaled: the payloads of the model fit the buffer, as an
\* entry of a few hundred bytes fits std's.
BufCapacity == 8

Byte == {0, 1}

RECURSIVE SeqsOfLen(_)
SeqsOfLen(n) ==
    IF n = 0 THEN {<<>>}
    ELSE {Append(s, b) : s \in SeqsOfLen(n - 1), b \in Byte}

Payloads == UNION {SeqsOfLen(n) : n \in 0..MaxLen}

\* ------------------------------------------------------------- cache keys

\* The leaf filename the crate configures its cache with.
Filename == "data.json"

\* The cache root, as a path relative to itself.
CacheDir == <<>>

\* Keys the cache is driven with directly: a key, keys that extend it (one of
\* them by a segment equal to the leaf filename), and a permutation.
CacheKeys ==
    {<<"a">>, <<"a", "b">>, <<"b", "a">>, <<"a", Filename>>}

\* The author and the branch the query is made for, and the commit ids a
\* caller asks for and the branch's head can be at.
Author == [service |-> "github", username |-> "kitsuyui", name |-> "rust-codecov"]

BranchName == "main"

CommitIds == <<"c1", "c2">>

Commits == {CommitIds[i] : i \in 1..Len(CommitIds)}

\* The cache key of a branch detail: lib.rs builds it twice, from the commit
\* id asked for and from the head commit of the response.
cache_key(commit_id) ==
    <<Author.service, Author.username, Author.name, BranchName, commit_id>>

FetchKeys == {cache_key(c) : c \in Commits}

AllKeys == CacheKeys \cup FetchKeys

\* ------------------------------------------------------------- results

NoData == <<>>

IOErr(kind) == [tag |-> "IOErr", kind |-> kind]

NoErr == [tag |-> "none", kind |-> "none"]

Ok(data) == [ok |-> TRUE, data |-> data, err |-> NoErr]

Err(e) == [ok |-> FALSE, data |-> NoData, err |-> e]

\* ------------------------------------------------------------- faults

NoFault == [at |-> "none", n |-> 0]

\* A fault of the environment during save(keys, data): at a directory
\* creation, the first one needed or the one of the key's own directory
\* after n components were made; at the creation of the file; or after n
\* bytes of the payload were written.
SaveFaults(keys, data) ==
    {NoFault, [at |-> "create", n |-> 0]}
        \cup {[at |-> "mkdir", n |-> k] : k \in {0, Len(keys)}}
        \cup {[at |-> "write", n |-> k] : k \in 0..(Len(data) - 1)}

ReadFaults == {NoFault, [at |-> "read", n |-> 0]}

RemoveFaults == {NoFault, [at |-> "unlink", n |-> 0]}

\* ------------------------------------------------------------- filesystem

Prefixes(path) == {SubSeq(path, 1, i) : i \in 0..Len(path)}

Parent(path) == SubSeq(path, 1, Len(path) - 1)

IsFile(fsys, path) == path \in DOMAIN fsys.files

IsDir(fsys, path) == path \in fsys.dirs

\* Some proper prefix of path is a regular file: the path cannot be resolved.
ThroughFile(fsys, path) ==
    \E q \in Prefixes(path) : q # path /\ IsFile(fsys, q)

\* The kind of the error a lookup of path ends with when path is not there.
LookupErrKind(fsys, path) ==
    IF ThroughFile(fsys, path) THEN "NotADirectory" ELSE "NotFound"

\* std::fs::create_dir_all: every missing component is created; it fails when
\* a component exists and is no directory, or on a fault after the first
\* fault.n components.
create_dir_all(fsys, path, fault) ==
    IF \E q \in Prefixes(path) : IsFile(fsys, q)
    THEN [fsys |-> fsys,
          ret |-> Err(IOErr(IF IsFile(fsys, path) THEN "AlreadyExists"
                                                  ELSE "NotADirectory"))]
    ELSE IF fault.at = "mkdir"
              /\ \E q \in Prefixes(path) : Len(q) >= fault.n /\ ~IsDir(fsys, q)
    THEN [fsys |-> [fsys EXCEPT !.dirs =
                        @ \cup {q \in Prefixes(path) : Len(q) < fault.n}],
          ret |-> Err(IOErr("PermissionDenied"))]
    ELSE [fsys |-> [fsys EXCEPT !.dirs = @ \cup Prefixes(path)],
          ret |-> Ok(NoData)]

\* File::create replaced by an open that creates the file but keeps what an
\* existing file holds.
file_create_keep(fsys, path, fault) ==
    IF ~IsDir(fsys, Parent(path))
    THEN [fsys |-> fsys, ret |-> Err(IOErr(LookupErrKind(fsys, path)))]
    ELSE IF IsDir(fsys, path)
    THEN [fsys |-> fsys, ret |-> Err(IOErr("IsADirectory"))]
    ELSE IF fault.at = "create"
    THEN [fsys |-> fsys, ret |-> Err(IOErr("PermissionDenied"))]
    ELSE [fsys |-> [fsys EXCEPT !.files =
                        [p \in DOMAIN @ \cup {path} |->
                            IF p \in DOMAIN @ THEN @[p] ELSE <<>>]],
          ret |-> Ok(NoData)]

\* std::fs::File::create: opens for writing, creating the file or truncating
\* it when it exists.
file_create(fsys, path, fault) ==
    IF ~IsDir(fsys, Parent(path))
    THEN [fsys |-> fsys, ret |-> Err(IOErr(LookupErrKind(fsys, path)))]
    ELSE IF IsDir(fsys, path)
    THEN [fsys |-> fsys, ret |-> Err(IOErr("IsADirectory"))]
    ELSE IF fault.at = "create"
    THEN [fsys |-> fsys, ret |-> Err(IOErr("PermissionDenied"))]
    ELSE [fsys |-> [fsys EXCEPT !.files =
                        [p \in DOMAIN @ \cup {path} |->
                            IF p = path THEN <<>> ELSE @[p]]],
          ret |-> Ok(NoData)]

\* The bytes of data that reach the file when the write is cut by a fault.
Written(data, fault) ==
    IF fault.at = "write" /\ fault.n < Len(data)
    THEN SubSeq(data, 1, fault.n)
    ELSE data

\* A write of bytes at offset 0 of a file holding old.
Overlay(old, bytes) == bytes \o SubSeq(old, Len(bytes) + 1, Len(old))

\* BufWriter::write_all followed by the drop of the writer.  A payload that
\* fits the buffer is only copied by write_all and reaches the file when the
\* writer is dropped, where a failed flush is discarded; a payload of at
\* least the buffer's capacity is written through, and its failure returned.
buf_write_all(fsys, path, data, fault) ==
    LET after == [fsys EXCEPT !.files[path] = Overlay(@, Written(data, fault))]
        failed == Written(data, fault) # data
    IN  IF failed /\ Len(data) >= BufCapacity
        THEN [fsys |-> after, ret |-> Err(IOErr("StorageFull"))]
        ELSE [fsys |-> after, ret |-> Ok(NoData)]

\* std::fs::read
fs_read(fsys, path, fault) ==
    IF IsFile(fsys, path)
    THEN IF fault.at = "read" THEN Err(IOErr("PermissionDenied"))
         ELSE Ok(fsys.files[path])
    ELSE IF IsDir(fsys, path) THEN Err(IOErr("IsADirectory"))
    ELSE Err(IOErr(LookupErrKind(fsys, path)))

\* std::fs::remove_file
remove_file(fsys, path, fault) ==
    IF IsFile(fsys, path)
    THEN IF fault.at = "unlink"
         THEN [fsys |-> fsys, ret |-> Err(IOErr("PermissionDenied"))]
         ELSE [fsys |-> [fsys EXCEPT !.files =
                            [p \in DOMAIN @ \ {path} |-> @[p]]],
               ret |-> Ok(NoData)]
    ELSE IF IsDir(fsys, path)
    THEN [fsys |-> fsys, ret |-> Err(IOErr("IsADirectory"))]
    ELSE [fsys |-> fsys, ret |-> Err(IOErr(LookupErrKind(fsys, path)))]

\* Path::exists: whether the path's metadata can be read, whatever it is.
path_exists(fsys, path) == IsFile(fsys, path) \/ IsDir(fsys, path)

\* ------------------------------------------------------------- cache::Client

RECURSIVE PushAll(_, _)
PushAll(path, keys) ==
    IF keys = <<>> THEN path
    ELSE PushAll(Append(path, Head(keys)), Tail(keys))

\* dirpath_by_keys with a loop that joins each key to the root in turn
\* instead of to the path built so far.
dirpath_by_last_key(keys) ==
    IF keys = <<>> THEN CacheDir ELSE Append(CacheDir, keys[Len(keys)])

dirpath_by_keys(keys) == PushAll(CacheDir, keys)

filepath_by_keys(keys) == Append(dirpath_by_keys(keys), Filename)

ensure_dir(fsys, keys, fault) == create_dir_all(fsys, dirpath_by_keys(keys), fault)

\* The one element of a singleton set.  {F(x) : x \in {e}} is F of e with e
\* evaluated once.
Only(S) == CHOOSE x \in S : TRUE

save(fsys, keys, data, fault) ==
    LET path == filepath_by_keys(keys)
        Write(created) ==
            IF ~created.ret.ok THEN created
            ELSE buf_write_all(created.fsys, path, data, fault)
        Create(dir) ==
            IF ~dir.ret.ok THEN dir
            ELSE Only({Write(created) :
                          created \in {file_create(dir.fsys, path, fault)}})
    IN  Only({Create(dir) : dir \in {ensure_dir(fsys, keys, fault)}})

load(fsys, keys, fault) == fs_read(fsys, filepath_by_keys(keys), fault)

remove(fsys, keys, fault) == remove_file(fsys, filepath_by_keys(keys), fault)

\* has testing the key's directory instead of its leaf file.
has_dirpath(fsys, keys) == path_exists(fsys, dirpath_by_keys(keys))

has(fsys, keys) == path_exists(fsys, filepath_by_keys(keys))

\* ------------------------------------------------------------- responses

Stamps == {0, 1}

\* BranchDetailAPIResponse::Success(detail): the detail names the branch's
\* head commit and carries the branch's update stamp.
Success(commitid, updatestamp) ==
    [tag |-> "Success", commitid |-> commitid, updatestamp |-> updatestamp]

\* BranchDetailAPIResponse::NotFound
NotFound == [tag |-> "NotFound", commitid |-> CommitIds[1], updatestamp |-> 0]

NoResp == [tag |-> "none", commitid |-> CommitIds[1], updatestamp |-> 0]

Responses == {Success(c, t) : c \in Commits, t \in Stamps} \cup {NotFound}

\* codecov::errors::Error, as far as errors.rs tells its variants apart.
RemoteErrors ==
    {[kind |-> "EnvError", var |-> "NotPresent"],
     [kind |-> "ReqwestError", var |-> "none"]}

NoLibErr == [tag |-> "none", src |-> [kind |-> "none", var |-> "none"]]

\* From<codecov::errors::Error> with its arms swapped for one: every error
\* of the client is wrapped.
from_codecov_error_wrap(err) == [tag |-> "CodecovClientError", src |-> err]

\* impl From<codecov::errors::Error> for Error
from_codecov_error(err) ==
    IF err.kind = "EnvError"
    THEN [tag |-> "EnvError", src |-> [kind |-> "VarError", var |-> err.var]]
    ELSE [tag |-> "CodecovClientError", src |-> err]

RespOk(resp) == [ok |-> TRUE, resp |-> resp, err |-> NoLibErr]

RespErr(e) == [ok |-> FALSE, resp |-> NoResp, err |-> e]

\* What CodecovClient::get_branch_detail can come back with.
RemoteOutcomes ==
    {[ok |-> TRUE, resp |-> r, err |-> NoLibErr.src] : r \in Responses}
        \cup {[ok |-> FALSE, resp |-> NoResp, err |-> e] : e \in RemoteErrors}

\* ------------------------------------------------------------- serde_json

CommitByte(commitid) ==
    (CHOOSE i \in 1..Len(CommitIds) : CommitIds[i] = commitid) - 1

\* The text of a stamp: as the decimal text of a number, its length grows
\* with the number.
StampText(t) == [i \in 1..(t + 1) |-> t]

\* to_vec of a detail wrapped in the name of its variant, which the read
\* path does not expect.
to_vec_tagged(detail) ==
    <<0, 1, CommitByte(detail.commitid)>> \o StampText(detail.updatestamp)

\* serde_json::to_vec(&detail): the text of a detail is a marker, its head
\* commit and the text of its stamp.
to_vec(detail) ==
    <<1, CommitByte(detail.commitid)>> \o StampText(detail.updatestamp)

\* serde_json::from_slice into a Value: a text is well formed when it is one
\* complete value and nothing more: one byte, or two bytes and the text of a
\* stamp.
from_slice(bytes) ==
    IF \/ Len(bytes) = 1
       \/ Len(bytes) >= 3
            /\ \E t \in Stamps : SubSeq(bytes, 3, Len(bytes)) = StampText(t)
    THEN [ok |-> TRUE, value |-> bytes]
    ELSE [ok |-> FALSE, value |-> <<>>]

\* serde_json::from_value into BranchDetailAPIResponse, an untagged enum: the
\* value of a detail is a Success, the value of a not-found body a NotFound,
\* any other value an error.
from_value(value) ==
    IF Len(value) >= 3 /\ value[1] = 1 /\ value[2] + 1 \in 1..Len(CommitIds)
    THEN [ok |-> TRUE, resp |-> Success(CommitIds[value[2] + 1], value[3])]
    ELSE IF value = <<0>>
    THEN [ok |-> TRUE, resp |-> NotFound]
    ELSE [ok |-> FALSE, resp |-> NoResp]

\* ------------------------------------------------------------- Client

\* What the environment does to one query: a fault of the read of the entry,
\* whether the detail serializes, a fault of the save.
Reliable == [read |-> NoFault, ser |-> TRUE, save |-> NoFault]

\* The faults that can bear on a query: a read fault when there is a file to
\* read, a detail that does not serialize and a fault of the save when the
\* remote returns a Success.
Envs(fsys, commit_id, remote) ==
    LET success == remote.ok /\ remote.resp.tag = "Success"
    IN  {env \in [read : ReadFaults, ser : BOOLEAN,
                  save : SaveFaults(cache_key(commit_id), to_vec(remote.resp))] :
            /\ env.read # NoFault
                    => IsFile(fsys, filepath_by_keys(cache_key(commit_id)))
            /\ ~env.ser => (success /\ env.save = NoFault)
            /\ env.save # NoFault => success}

\* The read path with the decode of the entry propagated by ? instead of
\* matched by if let.
cache_lookup_propagate(fsys, commit_id, env) ==
    LET loaded == load(fsys, cache_key(commit_id), env.read)
        value == from_slice(loaded.data)
        detail == from_value(value.value)
    IN  IF ~loaded.ok THEN [hit |-> FALSE, ret |-> RespErr(NoLibErr)]
        ELSE IF value.ok /\ detail.ok
        THEN [hit |-> TRUE, ret |-> RespOk(detail.resp)]
        ELSE [hit |-> TRUE,
              ret |-> RespErr([tag |-> "DeserializeError", src |-> NoLibErr.src])]

\* The read path without its early return: the entry is never used.
cache_lookup_unused(fsys, commit_id, env) ==
    [hit |-> FALSE, ret |-> RespErr(NoLibErr)]

\* "Use cache if exists": the entry at the key of the commit id asked for,
\* when it loads and decodes.
cache_lookup(fsys, commit_id, env) ==
    LET Decoded(loaded) ==
            LET value == from_slice(loaded.data)
                detail == from_value(value.value)
            IN  IF loaded.ok /\ value.ok /\ detail.ok
                THEN [hit |-> TRUE, ret |-> RespOk(detail.resp)]
                ELSE [hit |-> FALSE, ret |-> RespErr(NoLibErr)]
    IN  Only({Decoded(loaded) :
                 loaded \in {load(fsys, cache_key(commit_id), env.read)}})

\* The key of the write built from the commit id of the query.
canonical_key_asked(commit_id, detail) == cache_key(commit_id)

\* The key of the write: the head commit of the response in place of the
\* commit id asked for.
canonical_key(commit_id, detail) == cache_key(detail.commitid)

NotStored(fsys, retrieved) ==
    [fsys |-> fsys, saved |-> "none", key |-> <<>>, data |-> NoData,
     ret |-> RespOk(retrieved)]

Stored(written, key, data, ret) ==
    [fsys |-> written.fsys, saved |-> IF written.ret.ok THEN "ok" ELSE "err",
     key |-> key, data |-> data, ret |-> ret]

StoredOk(saves, key, data, retrieved) ==
    Only({Stored(written, key, data, RespOk(retrieved)) : written \in saves})

\* The write-back with the error of save propagated by ? instead of printed.
store_propagate(fsys, commit_id, retrieved, env) ==
    IF retrieved.tag = "Success" /\ env.ser
    THEN LET key == canonical_key(commit_id, retrieved)
             data == to_vec(retrieved)
         IN  Only({Stored(written, key, data,
                          IF written.ret.ok THEN RespOk(retrieved)
                          ELSE RespErr([tag |-> "CacheError",
                                        src |-> NoLibErr.src])) :
                      written \in {save(fsys, key, data, env.save)}})
    ELSE NotStored(fsys, retrieved)

\* The write-back without the match on the Success variant: a response that
\* is no Success is saved as well, under the key asked for.
store_any(fsys, commit_id, retrieved, env) ==
    IF env.ser
    THEN LET key == IF retrieved.tag = "Success"
                    THEN canonical_key(commit_id, retrieved)
                    ELSE cache_key(commit_id)
             data == IF retrieved.tag = "Success" THEN to_vec(retrieved) ELSE <<0>>
         IN  StoredOk({save(fsys, key, data, env.save)}, key, data, retrieved)
    ELSE NotStored(fsys, retrieved)

\* "Save to cache": a Success that serializes is saved under its canonical
\* key; a failure of the save is printed; the response is returned.
store(fsys, commit_id, retrieved, env) ==
    IF retrieved.tag = "Success" /\ env.ser
    THEN LET key == canonical_key(commit_id, retrieved)
             data == to_vec(retrieved)
         IN  StoredOk({save(fsys, key, data, env.save)}, key, data, retrieved)
    ELSE NotStored(fsys, retrieved)

\* Client::get_branch_detail_with_commit_id; remote is what the call of
\* CodecovClient::get_branch_detail returns if it is made.
get_branch_detail_with_commit_id(fsys, commit_id, remote, env) ==
    LET Fetch(cached) ==
            IF cached.hit
            THEN [fsys |-> fsys, called |-> FALSE, saved |-> "none",
                  key |-> <<>>, data |-> NoData, ret |-> cached.ret]
            ELSE IF ~remote.ok
            THEN [fsys |-> fsys, called |-> TRUE, saved |-> "none",
                  key |-> <<>>, data |-> NoData,
                  ret |-> RespErr(from_codecov_error(remote.err))]
            ELSE [called |-> TRUE] @@ store(fsys, commit_id, remote.resp, env)
    IN  Only({Fetch(cached) : cached \in {cache_lookup(fsys, commit_id, env)}})

\* ------------------------------------------------------------- state

\* The filesystem under the cache root.
Fsys == [dirs |-> dirs, files |-> files]

\* What the calls made so far say about a key: never saved; last saved with
\* data; last removed; or its last save failed.
Never == [st |-> "never", data |-> NoData]

\* No read since the last save or remove.
NoRead == [op |-> "none", keys |-> <<>>, ret |-> Err(NoErr), found |-> FALSE]

NoMut == [op |-> "none", keys |-> <<>>, ret |-> Err(NoErr), shrank |-> FALSE]

\* No query since the last save or remove made directly.
NoRemote == [ok |-> FALSE, resp |-> NoResp, err |-> NoLibErr.src]

NoQuery ==
    [op |-> "none", commit_id |-> "", remote |-> NoRemote,
     ret |-> RespErr(NoLibErr), called |-> FALSE, saved |-> "none",
     before |-> [has |-> FALSE, file |-> FALSE, bytes |-> NoData]]

\* The concurrent callers of the cache, and a caller that has made no call:
\* the call it makes (save, or gbd for get_branch_detail_with_commit_id),
\* the place it is at in it, the key and the payload of its save, the commit
\* id it asks for, what the remote returned to it, how its save ended, what
\* it returns, and the calls it made in turn.
Procs == {1, 2}

NoProc ==
    [op |-> "none", pc |-> "idle", keys |-> <<>>, data |-> NoData,
     commit_id |-> "", remote |-> NoRemote, saved |-> "none",
     ret |-> RespErr(NoLibErr), trace |-> <<>>]

\* Whether a save of data replaces an entry that holds more bytes.
Shrinks(fsys, keys, data) ==
    LET path == filepath_by_keys(keys)
    IN  IsFile(fsys, path) /\ Len(fsys.files[path]) > Len(data)

Init ==
    /\ dirs = {}
    /\ files = <<>>
    /\ ghost = [k \in AllKeys |-> Never]
    /\ lastMut = NoMut
    /\ last = NoRead
    /\ query = NoQuery
    /\ procs = [p \in Procs |-> NoProc]

\* ------------------------------------------------------------- cache calls

Save(keys, data, fault) ==
    \E r \in {save(Fsys, keys, data, fault)} :
        /\ dirs' = r.fsys.dirs
        /\ files' = r.fsys.files
        /\ ghost' = [ghost EXCEPT ![keys] =
                        IF r.ret.ok THEN [st |-> "saved", data |-> data]
                        ELSE [st |-> "failed", data |-> NoData]]
        /\ lastMut' = [op |-> "save", keys |-> keys, ret |-> r.ret,
                       shrank |-> Shrinks(Fsys, keys, data)]
        /\ last' = NoRead
        /\ query' = NoQuery
        /\ UNCHANGED procs

Remove(keys, fault) ==
    \E r \in {remove(Fsys, keys, fault)} :
        /\ dirs' = r.fsys.dirs
        /\ files' = r.fsys.files
        /\ ghost' = [ghost EXCEPT ![keys] =
                        IF r.ret.ok THEN [st |-> "removed", data |-> NoData]
                        ELSE @]
        /\ lastMut' = [op |-> "remove", keys |-> keys, ret |-> r.ret,
                       shrank |-> FALSE]
        /\ last' = NoRead
        /\ query' = NoQuery
        /\ UNCHANGED procs

Load(keys, fault) ==
    /\ last' = [op |-> "load", keys |-> keys, ret |-> load(Fsys, keys, fault),
                found |-> FALSE]
    /\ UNCHANGED <<dirs, files, ghost, lastMut, query, procs>>

Has(keys) ==
    /\ last' = [op |-> "has", keys |-> keys, ret |-> Err(NoErr),
                found |-> has(Fsys, keys)]
    /\ UNCHANGED <<dirs, files, ghost, lastMut, query, procs>>

\* The cache driven directly, on a filesystem whose calls fail only for what
\* the tree holds.
CacheSave == \E keys \in CacheKeys, data \in Payloads : Save(keys, data, NoFault)

CacheRemove == \E keys \in CacheKeys : Remove(keys, NoFault)

CacheLoad == \E keys \in CacheKeys : Load(keys, NoFault)

CacheHas == \E keys \in CacheKeys : Has(keys)

Next == CacheSave \/ CacheRemove \/ CacheLoad \/ CacheHas

Spec == Init /\ [][Next]_vars

\* ------------------------------------------------------------- queries

\* What is at the key of a query before it runs.
Before(fsys, keys) ==
    LET path == filepath_by_keys(keys)
    IN  [has |-> has(fsys, keys), file |-> IsFile(fsys, path),
         bytes |-> IF IsFile(fsys, path) THEN fsys.files[path] ELSE NoData]

Query(commit_id, remote, env) ==
    \E r \in {get_branch_detail_with_commit_id(Fsys, commit_id, remote, env)} :
        /\ dirs' = r.fsys.dirs
        /\ files' = r.fsys.files
        /\ ghost' = IF r.saved = "none" THEN ghost
                    ELSE [ghost EXCEPT ![r.key] =
                            IF r.saved = "ok" THEN [st |-> "saved", data |-> r.data]
                            ELSE [st |-> "failed", data |-> NoData]]
        /\ lastMut' = NoMut
        /\ last' = NoRead
        /\ query' = [op |-> "gbd", commit_id |-> commit_id,
                     remote |-> IF r.called THEN remote ELSE NoRemote,
                     ret |-> r.ret, called |-> r.called, saved |-> r.saved,
                     before |-> Before(Fsys, cache_key(commit_id))]
        /\ UNCHANGED procs

\* Queries, and entries written and removed at their keys directly, on a
\* filesystem whose calls fail only for what the tree holds.
FetchQuery ==
    \E commit_id \in Commits, remote \in RemoteOutcomes :
        Query(commit_id, remote, Reliable)

FetchSave == \E keys \in FetchKeys, data \in Payloads : Save(keys, data, NoFault)

FetchRemove == \E keys \in FetchKeys : Remove(keys, NoFault)

NextFetch == FetchQuery \/ FetchSave \/ FetchRemove

SpecFetch == Init /\ [][NextFetch]_vars

\* The same with the faults of the environment: reads, directory creations,
\* file creations and writes that fail, details that do not serialize.
FaultQuery ==
    \E commit_id \in Commits, remote \in RemoteOutcomes :
        \E env \in Envs(Fsys, commit_id, remote) : Query(commit_id, remote, env)

NextFault == FaultQuery \/ FetchSave \/ FetchRemove

SpecFault == Init /\ [][NextFault]_vars

\* ------------------------------------------------------------- cache claims

\* The key of the latest read is one whose latest save or remove call was a
\* successful save.
ReadOfSaved == last.op # "none" /\ ghost[last.keys].st = "saved"

\* C1: a load of a key whose latest save or remove call was a successful
\* save(K, B) returns Ok with exactly B, whatever was done to other keys in
\* between.
C1_SaveThenLoad ==
    (last.op = "load" /\ ReadOfSaved)
        => (last.ret.ok /\ last.ret.data = ghost[last.keys].data)

C1_Witness ==
    /\ last.op = "load"
    /\ last.keys = <<"a", "b">>
    /\ ReadOfSaved
    /\ lastMut.keys # last.keys
    /\ last.ret.ok
    /\ last.ret.data = <<1>>

\* C2: for a key that was never saved, load fails with a not-found error and
\* has is false, whatever was saved or removed under other keys.
C2_NeverSavedAbsent ==
    (last.op # "none" /\ ghost[last.keys].st = "never")
        => /\ last.op = "load" => (~last.ret.ok /\ last.ret.err.kind = "NotFound")
           /\ last.op = "has" => ~last.found

\* The read follows a successful call op on the same key, with only reads
\* in between.
ReadAfter(op) ==
    /\ last.op # "none"
    /\ lastMut.op = op
    /\ lastMut.ret.ok
    /\ lastMut.keys = last.keys

\* C3: right after a successful save(K, B), has(K) is true; right after a
\* successful remove(K), has(K) is false and load(K) fails with a not-found
\* error.
C3_HasAfterSaveAndRemove ==
    /\ (ReadAfter("save") /\ last.op = "has") => last.found
    /\ (ReadAfter("remove") /\ last.op = "has") => ~last.found
    /\ (ReadAfter("remove") /\ last.op = "load")
            => (~last.ret.ok /\ last.ret.err.kind = "NotFound")

C3_Witness ==
    /\ ReadAfter("remove")
    /\ last.op = "load"
    /\ ~last.ret.ok
    /\ last.ret.err.kind = "NotFound"
    /\ dirpath_by_keys(last.keys) \in dirs

\* The step is a successful save call.
SaveStep == lastMut'.op = "save" /\ last'.op = "none" /\ lastMut'.ret.ok

\* C4: saves to one key overwrite: a load after a successful save returns
\* exactly the payload of that save, also when the entry held more bytes
\* before; and a successful save of the payload the key was last saved with
\* leaves the directories and files as they were.
C4_Overwrite ==
    /\ []((ReadAfter("save") /\ last.op = "load")
            => (last.ret.ok /\ last.ret.data = ghost[last.keys].data))
    /\ [][(SaveStep /\ ghost[lastMut'.keys].st = "saved"
                    /\ ghost'[lastMut'.keys] = ghost[lastMut'.keys])
            => (dirs' = dirs /\ files' = files)]_vars

C4_Witness ==
    /\ ReadAfter("save")
    /\ last.op = "load"
    /\ lastMut.shrank
    /\ last.ret.ok
    /\ last.ret.data = <<>>

\* What a caller tells apart in the entry of a key: whether load succeeds,
\* the bytes it returns, and what has returns.
Observed(fsys, keys) ==
    [ok |-> load(fsys, keys, NoFault).ok,
     data |-> load(fsys, keys, NoFault).data,
     has |-> has(fsys, keys)]

\* C5: a save or remove call on a key leaves what load and has return
\* for every other key as it was.
C5_Independent ==
    [][(last'.op = "none" /\ lastMut'.op \in {"save", "remove"})
        => \A k \in CacheKeys \ {lastMut'.keys} :
            Observed([dirs |-> dirs', files |-> files'], k) = Observed(Fsys, k)]_vars

\* ------------------------------------------------------------- query claims

\* The latest call is a query that called the remote and got a response.
Fetched == query.op = "gbd" /\ query.called /\ query.remote.ok

\* C6: a query whose key has no entry and whose remote call returns a Success
\* with head commit c2 leaves an entry at the key of c2, and none at the key
\* asked for when that differs.
C6_StoredUnderHeadCommit ==
    (Fetched /\ ~query.before.has /\ query.remote.resp.tag = "Success")
        => /\ has(Fsys, cache_key(query.remote.resp.commitid))
           /\ query.commit_id # query.remote.resp.commitid
                => ~has(Fsys, cache_key(query.commit_id))

C6_Witness ==
    /\ Fetched
    /\ ~query.before.has
    /\ query.commit_id = "c1"
    /\ query.remote.resp = Success("c2", 1)
    /\ IsFile(Fsys, filepath_by_keys(cache_key("c2")))
    /\ ~has(Fsys, cache_key("c1"))

\* C7: a query returns an error exactly when it called the remote and the
\* call failed; when the save of the response fails, the response is returned
\* all the same.
C7_OnlyRemoteErrors ==
    query.op = "gbd"
        => /\ ~query.ret.ok <=> (query.called /\ ~query.remote.ok)
           /\ query.saved = "err"
                => (query.ret.ok /\ query.ret.resp = query.remote.resp)

C7_Witness ==
    /\ Fetched
    /\ query.saved = "err"
    /\ query.ret.ok
    /\ query.ret.resp = query.remote.resp

\* The bytes do not decode into a response.
Undecodable(bytes) ==
    ~(from_slice(bytes).ok /\ from_value(from_slice(bytes).value).ok)

\* The key of the latest query held a file of bytes that do not decode.
CorruptBefore ==
    query.op = "gbd" /\ query.before.file /\ Undecodable(query.before.bytes)

\* C8: a query whose key holds bytes that do not decode calls the remote and
\* returns what the remote returns: its response, or its failure.
C8_CorruptEntryIsMiss ==
    CorruptBefore
        => /\ query.called
           /\ query.remote.ok
                => (query.ret.ok /\ query.ret.resp = query.remote.resp)
           /\ ~query.remote.ok
                => (~query.ret.ok /\ query.ret.err.src.kind \in {"VarError", "ReqwestError"})

C8_Witness ==
    /\ CorruptBefore
    /\ query.before.bytes = <<1>>
    /\ Fetched
    /\ query.ret.ok
    /\ query.ret.resp = query.remote.resp

\* The error a caller gets carries the failure e of the remote call.
Carries(err, e) ==
    \/ e.kind = "EnvError" /\ err.tag = "EnvError" /\ err.src.var = e.var
    \/ e.kind # "EnvError" /\ err.tag = "CodecovClientError" /\ err.src = e

\* The latest call is a query that called the remote, and the call failed.
RemoteFailed == query.op = "gbd" /\ query.called /\ ~query.remote.ok

\* C9: a query that misses the cache and whose remote call fails returns that
\* failure and leaves every directory and file as it was.
C9_RemoteFailure ==
    /\ [](RemoteFailed
            => (~query.ret.ok /\ Carries(query.ret.err, query.remote.err)))
    /\ [][RemoteFailed' => (dirs' = dirs /\ files' = files)]_vars

C9_Witness ==
    /\ RemoteFailed
    /\ query.remote.err.kind = "EnvError"
    /\ ~query.ret.ok
    /\ query.ret.err.tag = "EnvError"
    /\ ~query.before.has
    /\ DOMAIN files # {}

\* The latest call is a query whose remote call returned a response that is
\* no Success.
NoSuccess == Fetched /\ query.remote.resp.tag # "Success"

\* C10: a query saves only a Success: a response that is no Success is
\* returned, nothing is saved and every directory and file is as it was.
C10_OnlySuccessIsSaved ==
    /\ []((query.op = "gbd" /\ query.saved # "none")
            => (Fetched /\ query.remote.resp.tag = "Success"))
    /\ [](NoSuccess
            => (query.ret.ok /\ query.ret.resp = query.remote.resp
                    /\ query.saved = "none"))
    /\ [][NoSuccess' => (dirs' = dirs /\ files' = files)]_vars

C10_Witness ==
    /\ NoSuccess
    /\ query.ret.ok
    /\ query.ret.resp = NotFound
    /\ query.saved = "none"
    /\ ~query.before.has

\* ------------------------------------------------------------- I/O faults

\* The cache driven directly, with a key and a key that extends it, in an
\* environment whose directory creations, file creations, writes, reads and
\* unlinks can fail.
IOKeys == {<<"a">>, <<"a", "b">>}

IOSave ==
    \E keys \in IOKeys, data \in Payloads :
        \E fault \in SaveFaults(keys, data) : Save(keys, data, fault)

IORemove ==
    \E keys \in IOKeys : \E fault \in RemoveFaults : Remove(keys, fault)

IOLoad == \E keys \in IOKeys : \E fault \in ReadFaults : Load(keys, fault)

NextIO == IOSave \/ IORemove \/ IOLoad

SpecIO == Init /\ [][NextIO]_vars

\* The latest save or remove call is a save that returned Ok.
SavedOk == lastMut.op = "save" /\ lastMut.ret.ok

\* C11: when save(K, B) returns Ok, the entry at K is a file that holds
\* exactly B: a directory creation or a write that failed is returned as
\* an error.
C11_OkMeansWritten ==
    SavedOk
        => /\ IsFile(Fsys, filepath_by_keys(lastMut.keys))
           /\ files[filepath_by_keys(lastMut.keys)] = ghost[lastMut.keys].data

\* ------------------------------------------------------------- concurrency

\* Callers that share the cache root, each on its own call stack.  A step of
\* a caller is one call of the filesystem or of the remote; nothing orders
\* the steps of two callers.

\* The caller is at the place pc of a call.
At(p, pc) == procs[p].pc = pc

\* Where a query goes after the lookup: a hit returns.
after_lookup(cached) == IF cached.hit THEN "done" ELSE "remote"

\* The remote call retried when it fails, up to a second call.
after_remote_retry(remote, env, trace) ==
    IF ~remote.ok THEN (IF Len(trace) < 3 THEN "remote" ELSE "done")
    ELSE IF remote.resp.tag = "Success" /\ env.ser THEN "ensure_dir"
    ELSE "done"

\* Where a query goes after the remote call: its error is returned by ?; a
\* Success that serializes is saved; any other response is returned.
after_remote(remote, env, trace) ==
    IF ~remote.ok THEN "done"
    ELSE IF remote.resp.tag = "Success" /\ env.ser THEN "ensure_dir"
    ELSE "done"

\* What the call returns when its save has ended: a query returns the
\* response it fetched, whatever the save did.
Finish(p, saved) ==
    [procs EXCEPT ![p].pc = "done", ![p].saved = saved,
                  ![p].ret = IF procs[p].op = "gbd"
                             THEN RespOk(procs[p].remote.resp) ELSE @]

\* A caller enters save(keys, data).
SaveCall(p, keys, data) ==
    /\ At(p, "idle")
    /\ procs' = [procs EXCEPT ![p].op = "save", ![p].pc = "ensure_dir",
                              ![p].keys = keys, ![p].data = data]
    /\ UNCHANGED <<dirs, files, ghost, lastMut, last, query>>

\* save: ensure_dir(keys)?
EnsureDir(p) ==
    /\ At(p, "ensure_dir")
    /\ \E r \in {ensure_dir(Fsys, procs[p].keys, NoFault)} :
        /\ dirs' = r.fsys.dirs
        /\ files' = r.fsys.files
        /\ procs' = IF r.ret.ok
                    THEN [procs EXCEPT ![p].pc = "create",
                                       ![p].trace = Append(@, "save")]
                    ELSE [Finish(p, "err") EXCEPT
                                       ![p].trace = Append(@, "save")]
    /\ UNCHANGED <<ghost, lastMut, last, query>>

\* save: fs::File::create(path)?
Create(p, fault) ==
    /\ At(p, "create")
    /\ \E r \in {file_create(Fsys, filepath_by_keys(procs[p].keys), fault)} :
        /\ dirs' = r.fsys.dirs
        /\ files' = r.fsys.files
        /\ procs' = IF r.ret.ok THEN [procs EXCEPT ![p].pc = "write"]
                    ELSE Finish(p, "err")
    /\ UNCHANGED <<ghost, lastMut, last, query>>

\* save: writer.write_all(data)? and the drop of the writer, which writes
\* the buffered payload at the start of the file this caller opened.
Write(p) ==
    /\ At(p, "write")
    /\ \E r \in {buf_write_all(Fsys, filepath_by_keys(procs[p].keys),
                               procs[p].data, NoFault)} :
        /\ dirs' = r.fsys.dirs
        /\ files' = r.fsys.files
        /\ procs' = Finish(p, IF r.ret.ok THEN "ok" ELSE "err")
    /\ UNCHANGED <<ghost, lastMut, last, query>>

\* A load of another caller, at any moment.
RaceLoad(keys) ==
    /\ last' = [op |-> "load", keys |-> keys, ret |-> load(Fsys, keys, NoFault),
                found |-> FALSE]
    /\ UNCHANGED <<dirs, files, ghost, lastMut, query, procs>>

RaceKeys == {<<"a">>, <<"a", "b">>}

\* Two callers that each save once, and loads between their steps.
RaceSaveCall ==
    \E p \in Procs, keys \in RaceKeys, data \in Payloads : SaveCall(p, keys, data)

RaceEnsureDir == \E p \in Procs : EnsureDir(p)

RaceCreate == \E p \in Procs : Create(p, NoFault)

RaceWrite == \E p \in Procs : Write(p)

RaceLoads == \E keys \in RaceKeys : RaceLoad(keys)

NextRaceSave ==
    RaceSaveCall \/ RaceEnsureDir \/ RaceCreate \/ RaceWrite \/ RaceLoads

SpecRaceSave == Init /\ [][NextRaceSave]_vars

\* The payloads of the saves to keys that were entered so far.
SavedPayloads(keys) ==
    {procs[p].data : p \in {q \in Procs : procs[q].op = "save"
                                           /\ procs[q].keys = keys}}

\* C12: a load that succeeds while saves to its key are under way returns the
\* whole payload of one of the saves to that key, never an empty or cut
\* entry.
C12_LoadNeverPartial ==
    (last.op = "load" /\ last.ret.ok) => last.ret.data \in SavedPayloads(last.keys)

\* A caller enters get_branch_detail_with_commit_id(author, branch, commit_id).
GbdCall(p, commit_id) ==
    /\ At(p, "idle")
    /\ procs' = [procs EXCEPT ![p].op = "gbd", ![p].pc = "load",
                              ![p].commit_id = commit_id]
    /\ UNCHANGED <<dirs, files, ghost, lastMut, last, query>>

\* "Use cache if exists": the load of the entry and its decode.
Lookup(p) ==
    /\ At(p, "load")
    /\ \E cached \in {cache_lookup(Fsys, procs[p].commit_id, Reliable)} :
        procs' = [procs EXCEPT ![p].pc = after_lookup(cached),
                               ![p].ret = cached.ret,
                               ![p].trace = Append(@, "load")]
    /\ UNCHANGED <<dirs, files, ghost, lastMut, last, query>>

\* The call of the remote, which comes back with remote; a Success goes on
\* to the save of its text under its canonical key.
Remote(p, remote) ==
    /\ At(p, "remote")
    /\ \E pc \in {after_remote(remote, Reliable, procs[p].trace)} :
        procs' = [procs EXCEPT
            ![p].pc = pc,
            ![p].remote = remote,
            ![p].trace = Append(@, "remote"),
            ![p].ret = IF remote.ok THEN RespOk(remote.resp)
                       ELSE RespErr(from_codecov_error(remote.err)),
            ![p].keys = IF pc = "ensure_dir"
                        THEN canonical_key(procs[p].commit_id, remote.resp)
                        ELSE @,
            ![p].data = IF pc = "ensure_dir" THEN to_vec(remote.resp) ELSE @]
    /\ UNCHANGED <<dirs, files, ghost, lastMut, last, query>>

\* Two callers that each make one query, on a filesystem where the creation
\* of the entry's file can be refused.
RaceGbdCall == \E p \in Procs, commit_id \in Commits : GbdCall(p, commit_id)

RaceLookup == \E p \in Procs : Lookup(p)

RaceRemote == \E p \in Procs, remote \in RemoteOutcomes : Remote(p, remote)

RaceCreateOrNot ==
    \E p \in Procs, fault \in {NoFault, [at |-> "create", n |-> 0]} :
        Create(p, fault)

NextRace ==
    \/ RaceGbdCall
    \/ RaceLookup
    \/ RaceRemote
    \/ RaceEnsureDir
    \/ RaceCreateOrNot
    \/ RaceWrite

SpecRace == Init /\ [][NextRace]_vars

\* Both callers asked for the same commit id, missed, fetched a Success and
\* saved it under the same key, and both have returned.
BothWrote ==
    /\ \A p \in Procs :
        procs[p].op = "gbd" /\ At(p, "done") /\ procs[p].saved = "ok"
    /\ procs[1].commit_id = procs[2].commit_id
    /\ procs[1].keys = procs[2].keys

\* C13: when two callers race a query of the same uncached key, both call
\* the remote and both write the canonical entry; once both have returned,
\* the entry holds the whole payload of one of the two, and each caller has
\* returned the response it fetched.
C13_LastWriterWins ==
    BothWrote
        => /\ files[filepath_by_keys(procs[1].keys)]
                \in {procs[1].data, procs[2].data}
           /\ \A p \in Procs : procs[p].ret = RespOk(procs[p].remote.resp)

\* ------------------------------------------------------------- hits

\* The response the bytes decode into.
Decode(bytes) == from_value(from_slice(bytes).value).resp

\* The key of the latest query held a file of bytes that decode.
HitBefore ==
    query.op = "gbd" /\ query.before.file /\ ~Undecodable(query.before.bytes)

\* C14: a query whose key holds an entry that loads and decodes returns the
\* decoded response, calls the remote not at all, saves nothing and leaves
\* every directory and file as it was.
C14_HitChangesNothing ==
    /\ [](HitBefore
            => /\ query.ret = RespOk(Decode(query.before.bytes))
               /\ ~query.called
               /\ query.saved = "none")
    /\ [][HitBefore' => (dirs' = dirs /\ files' = files)]_vars

C14_Witness ==
    /\ HitBefore
    /\ query.commit_id = "c1"
    /\ query.before.bytes = to_vec(Success("c1", 1))
    /\ query.ret = RespOk(Success("c1", 1))
    /\ ~query.called
    /\ query.saved = "none"

\* The latest save or remove call on the key of commit c, by a query or
\* direct, is a successful save of the text of the Success R by a query.
StoredByQuery(c, R) ==
    /\ R.tag = "Success"
    /\ R.commitid = c
    /\ ghost[cache_key(c)] = [st |-> "saved", data |-> to_vec(R)]

\* C15: once a query has fetched a Success R with head commit c and stored
\* it, a query for c, with no save or remove of the entry in between, is
\* served from the cache: it makes no remote call and returns R.
C15_RoundTrip ==
    [][\A c \in Commits, R \in Responses :
        (StoredByQuery(c, R) /\ query'.op = "gbd" /\ query'.commit_id = c)
            => (~query'.called /\ query'.ret = RespOk(R))]_vars

C15_Witness ==
    /\ StoredByQuery("c2", Success("c2", 1))
    /\ query.op = "gbd"
    /\ query.commit_id = "c2"
    /\ query.before.bytes = to_vec(Success("c2", 1))
    /\ ~query.called
    /\ query.ret = RespOk(Success("c2", 1))

\* ------------------------------------------------------------- queries only

\* Queries from the empty cache, the head of the branch anywhere at each of
\* them, and nothing else writing under the cache root.  Reads, directory
\* creations and file creations can fail and a detail can fail to serialize;
\* a payload that is written is written whole.
QueriesQuery ==
    \E commit_id \in Commits, remote \in RemoteOutcomes :
        \E env \in {e \in Envs(Fsys, commit_id, remote) : e.save.at # "write"} :
            Query(commit_id, remote, env)

NextQueries == QueriesQuery

SpecQueries == Init /\ [][NextQueries]_vars

\* The texts of the details whose head commit is c.
DetailsOf(c) ==
    {to_vec(R) : R \in {S \in Responses : S.tag = "Success" /\ S.commitid = c}}

\* C16: when only queries write to the cache, the entry at the key of a
\* commit id c holds the text of a detail whose head commit is c, and a query
\* for c that is served from the cache returns a Success with head commit c.
C16_CanonicalKeying ==
    /\ \A c \in Commits :
        IsFile(Fsys, filepath_by_keys(cache_key(c)))
            => files[filepath_by_keys(cache_key(c))] \in DetailsOf(c)
    /\ (query.op = "gbd" /\ ~query.called)
            => /\ query.ret.ok
               /\ query.ret.resp.tag = "Success"
               /\ query.ret.resp.commitid = query.commit_id

C16_Witness ==
    /\ \A c \in Commits : IsFile(Fsys, filepath_by_keys(cache_key(c)))
    /\ query.op = "gbd"
    /\ ~query.called
    /\ query.commit_id = "c2"
    /\ query.ret.resp.commitid = "c2"

\* ------------------------------------------------------------- has and load

\* C17: with one caller, after any saves and removes, has(K) is true exactly
\* when load(K) succeeds, for every key K, also when a key that extends K by
\* the leaf filename was saved.
C17_HasIffLoads ==
    \A k \in CacheKeys : has(Fsys, k) <=> load(Fsys, k, NoFault).ok

\* ------------------------------------------------------------- termination

\* A step of caller p inside its query.
Step(p) ==
    \/ Lookup(p)
    \/ \E remote \in RemoteOutcomes : Remote(p, remote)
    \/ EnsureDir(p)
    \/ \E fault \in {NoFault, [at |-> "create", n |-> 0]} : Create(p, fault)
    \/ Write(p)

\* Each caller runs on a thread of its own and every call it makes, of the
\* filesystem or of the remote, returns: a caller inside a query takes its
\* next step.
SpecRaceFair == SpecRace /\ \A p \in Procs : WF_vars(Step(p))

\* The calls a query can have made so far, in their order.
CallOrders ==
    {<<>>, <<"load">>, <<"load", "remote">>, <<"load", "remote", "save">>}

\* C18: a query makes at most one cache load, then at most one remote call,
\* then at most one cache save, and saves only after its remote call returned
\* a Success; no call is made again after it failed; and every query that was
\* entered returns.
C18_OneOfEachThenReturn ==
    /\ [](\A p \in Procs :
            /\ procs[p].trace \in CallOrders
            /\ procs[p].trace = <<"load", "remote", "save">>
                    => (procs[p].remote.ok /\ procs[p].remote.resp.tag = "Success")
            /\ At(p, "done") => procs[p].trace # <<>>)
    /\ \A p \in Procs : (procs[p].op = "gbd") ~> At(p, "done")

C18_Witness ==
    /\ At(1, "done")
    /\ procs[1].op = "gbd"
    /\ procs[1].trace = <<"load", "remote", "save">>
    /\ procs[1].saved = "err"
    /\ procs[1].ret = RespOk(procs[1].remote.resp)
    /\ At(2, "done")
    /\ procs[2].trace = <<"load", "remote">>
    /\ ~procs[2].remote.ok

====
